---- MODULE Spec2Model ----
(***************************************************************************)
(* A model of the trading decision engine: the Risk Manager gate           *)
(* (risk_manager.py), the decision loop (main.py), the Strategy Manager    *)
(* (strategy_manager.py), the Ichimoku strategy (ichimoku.py), the         *)
(* Indicator Pipeline (data_processor.py) and the strategies' position     *)
(* sizing (base_strategy.py).                                              *)
(*                                                                         *)
(* Numbers.  Python floats are modelled as exact rationals [n, d] in       *)
(* lowest terms with d > 0; prices and balances are whole numbers of the   *)
(* quote currency.  A Python dict with optional keys is a function whose   *)
(* DOMAIN is the set of keys present.                                      *)
(***************************************************************************)
EXTENDS Integers, Sequences, FiniteSets, TLC

VARIABLES
    attrs,            \* which of balances / open_orders / total_exposure exist on the RiskManager
    balances,         \* RiskManager.balances: asset -> [free, locked, total]
    open_orders,      \* RiskManager.open_orders: the set of orderIds
    total_exposure,   \* RiskManager.total_exposure
    open_positions,   \* RiskManager.open_positions: symbol -> [side]
    USE_STOP_LOSS,    \* config.USE_STOP_LOSS
    main,             \* the decision loop: "for" (line 79, before the next signal) |
                      \* "body" (lines 80-84 ran for a signal) | "stopped" (an exception left the loop)
    signal_in,        \* the signal as it was handed to validate_trade (history)
    signal,           \* the same dict after the call (validate_trade mutates it in place)
    result,           \* validate_trade's outcome: "none" | "True" | "False" | "raise"
    reason,           \* the warning logged on a rejection / the exception raised
    fetched,          \* the exchange fetches that succeeded during the last validate_trade
    placed,           \* the orders execute_trade placed for the last accepted signal
    open_trades,      \* the dict handed to adjust_stops: trade_id -> trade
    USE_TRAILING_STOP,\* config.USE_TRAILING_STOP
    current_price,    \* what get_current_price answered for each trade in the last adjust_stops
    enabled_strategies, \* StrategyManager.enabled_strategies: a list of identifiers
    strategies,       \* StrategyManager.strategies: the identifiers that have an instance
    generated,        \* StrategyManager.generate_signals: "none" | "returned" | "raise"
    all_signals,      \* the list generate_signals returned
    invoked,          \* the positions of the enabled list whose strategy was invoked (history)
    outcomes,         \* what each strategy did when invoked: raised, or its signals (history)
    data,             \* the series handed to IchimokuStrategy.generate_signals: columns and rows
    ichimoku,         \* IchimokuStrategy.generate_signals: "none" | "returned" | "raise"
    ichimoku_signals, \* the list it returned
    data_cache,       \* DataProcessor.data_cache: cache key -> DataFrame
    last_update,      \* DataProcessor.last_update: cache key -> time of the refresh
    latest_data,      \* DataProcessor.get_latest_data: "none" | "returned" | "raise"
    request,          \* the last call's symbol, timeframe and current_time (history)
    fetch,            \* <<>> when the call fetched no candles, else <<what the fetch did>> (history)
    latest,           \* the DataFrame the call returned
    frame,            \* the DataFrame object handed to calculate_indicators, as it is now
    frame_before,     \* the same object as it was before the last call (history)
    enriched,         \* <<>>, or <<the DataFrame the last call returned>>
    combine_input,    \* the list handed to combine_signals
    combined,         \* <<>>, or <<the list combine_signals returned>>
    sizing_input,     \* the account value and price a position is sized for
    sizes,            \* <<>>, or <<[strategy, risk_manager]>>: the two sizes computed
    adjust_calls,     \* adjust_stops calls the decision loop made in this iteration
    calls             \* the calls the loop body made for the current signal, in order (history)

tradeVars == <<attrs, balances, open_orders, total_exposure, open_positions,
               USE_STOP_LOSS, main, signal_in, signal, result, reason, fetched, placed,
               calls>>
stopVars == <<open_trades, USE_TRAILING_STOP, current_price>>

managerVars == <<enabled_strategies, strategies, generated, all_signals, invoked, outcomes>>

ichimokuVars == <<data, ichimoku, ichimoku_signals>>

dataVars == <<data_cache, last_update, latest_data, request, fetch, latest>>

indicatorVars == <<frame, frame_before, enriched>>

combineVars == <<combine_input, combined>>

sizingVars == <<sizing_input, sizes>>

loopVars == <<adjust_calls>>

vars == <<tradeVars, stopVars, managerVars, ichimokuVars, dataVars, indicatorVars,
          combineVars, sizingVars, loopVars>>

----------------------------------------------------------------------------
(* Exact rationals standing for Python floats *)

RECURSIVE GCD(_, _)
GCD(a, b) == IF b = 0 THEN a ELSE GCD(b, a % b)

Abs(x) == IF x < 0 THEN -x ELSE x

Rat(n, d) ==
    LET s == IF d < 0 THEN -1 ELSE 1
        g == GCD(Abs(n), Abs(d))
    IN  [n |-> (s * n) \div g, d |-> (s * d) \div g]

FromInt(i) == [n |-> i, d |-> 1]
RLt(a, b) == a.n * b.d < b.n * a.d
RLe(a, b) == a.n * b.d <= b.n * a.d
RAdd(a, b) == Rat(a.n * b.d + b.n * a.d, a.d * b.d)
RSub(a, b) == Rat(a.n * b.d - b.n * a.d, a.d * b.d)
RMul(a, b) == Rat(a.n * b.n, a.d * b.d)
RDiv(a, b) == Rat(a.n * b.d, a.d * b.n)
\* Python's min(a, b): b when b < a, else a
PyMin(a, b) == IF RLt(b, a) THEN b ELSE a
One == FromInt(1)

----------------------------------------------------------------------------
(* config.py *)

SYMBOL == "BTCUSDT"
MAX_POSITION_SIZE == Rat(1, 100)
RISK_PER_TRADE == Rat(1, 100)
MAX_OPEN_TRADES == 3
STOP_LOSS_PCT == Rat(2, 100)
TAKE_PROFIT_PCT == Rat(4, 100)
TRAILING_STOP_PCT == Rat(1, 100)

\* symbol[:-4] and symbol[-4:] of config.SYMBOL
base_currency == "BTC"
quote_currency == "USDT"

----------------------------------------------------------------------------
(* binance_connection.py: the exchange's answers *)

\* get_account_balance: the assets with free > 0 or locked > 0, total = free + locked
get_account_balance(response) ==
    [a \in {x \in DOMAIN response : response[x].free > 0 \/ response[x].locked > 0} |->
        [free |-> response[a].free, locked |-> response[a].locked,
         total |-> response[a].free + response[a].locked]]

Assets == {"USDT", "BTC"}

\* /v3/account answers the model draws from: [asset -> [free, locked]]
Acct(uf, ul, bf, bl) ==
    [a \in Assets |-> IF a = "USDT" THEN [free |-> uf, locked |-> ul]
                                    ELSE [free |-> bf, locked |-> bl]]

AccountResponses ==
    { Acct(0, 0, 0, 0),          \* no asset held: get_account_value falls back
      Acct(9000, 1000, 1, 0),
      Acct(10000, 0, 8950, 0),   \* exposure 8950 against an account value of 10000
      Acct(10, 0, 0, 1) }        \* a nearly empty account

\* a fetch either fails (the request raises) or answers
Fail == [ok |-> FALSE]
Ok(v) == [ok |-> TRUE, value |-> v]
BalanceFetches == {Fail} \cup {Ok(r) : r \in AccountResponses}
\* /v3/openOrders answers: the orderIds of the open orders
OrderFetches == {Fail, Ok({7})}

----------------------------------------------------------------------------
(* risk_manager.py *)

\* calculate_exposure: the base-currency total at the placeholder price 1.0
calculate_exposure(bal) ==
    IF base_currency \in DOMAIN bal THEN bal[base_currency].total * 1 ELSE 0

\* update_account_state: the first failing fetch ends the update; what was
\* assigned before it stays assigned, the rest keeps its earlier value.
update_account_state(st, bf, of) ==
    IF ~bf.ok THEN st
    ELSE LET withBal == [st EXCEPT !.attrs = @ \cup {"balances"},
                                   !.balances = get_account_balance(bf.value)]
         IN  IF ~of.ok THEN withBal
             ELSE [withBal EXCEPT !.attrs = @ \cup {"open_orders", "total_exposure"},
                                  !.open_orders = of.value,
                                  !.total_exposure = calculate_exposure(withBal.balances)]

\* get_account_value: the quote-currency total, 10000 when none is held
DefaultAccountValue == 10000
get_account_value(bal) ==
    IF quote_currency \in DOMAIN bal THEN bal[quote_currency].total
    ELSE DefaultAccountValue

\* calculate_max_position_size without the configured cap
calculate_max_position_size_uncapped(bal, price) ==
    RDiv(RMul(FromInt(get_account_value(bal)), RISK_PER_TRADE), FromInt(price))

\* calculate_max_position_size (price # 0)
calculate_max_position_size(bal, price) ==
    LET account_value == get_account_value(bal)
        risk_amount == RMul(FromInt(account_value), RISK_PER_TRADE)
        max_position_from_risk == RDiv(risk_amount, FromInt(price))
        max_position_from_config == MAX_POSITION_SIZE
    IN  PyMin(max_position_from_risk, max_position_from_config)

min_position_size == Rat(1, 100000)
ExposureCeiling == Rat(9, 10)

\* the limit test with > for >=
max_trades_exceeded(positions) ==
    Cardinality(DOMAIN positions) > MAX_OPEN_TRADES

\* line 72: len(self.open_positions) >= MAX_OPEN_TRADES
max_trades_reached(positions) ==
    Cardinality(DOMAIN positions) >= MAX_OPEN_TRADES

\* the direction test that refuses any second signal on a held symbol
any_direction(side, position_side) == side \in {"BUY", "SELL"}

\* lines 80-81: the signal's side against the side of the position held
opposite_direction(side, position_side) ==
    \/ side = "BUY" /\ position_side = "SELL"
    \/ side = "SELL" /\ position_side = "BUY"

\* the exposure test that leaves the new trade's value out
exposure_exceeded_before_trade(exposure, trade_value, account_value) ==
    RLt(RMul(FromInt(account_value), ExposureCeiling), FromInt(exposure))

\* line 115: total_exposure + trade_value > account_value * 0.9
exposure_exceeded(exposure, trade_value, account_value) ==
    RLt(RMul(FromInt(account_value), ExposureCeiling),
        RAdd(FromInt(exposure), trade_value))

\* (1 - STOP_LOSS_PCT), (1 + STOP_LOSS_PCT), (1 + TAKE_PROFIT_PCT), (1 - TAKE_PROFIT_PCT)
StopLossBelow == RSub(One, STOP_LOSS_PCT)
StopLossAbove == RAdd(One, STOP_LOSS_PCT)
TakeProfitAbove == RAdd(One, TAKE_PROFIT_PCT)
TakeProfitBelow == RSub(One, TAKE_PROFIT_PCT)

\* a backfill that replaces the stop loss the strategy set
with_stop_loss_overwritten(sig, side, price, use_stop_loss) ==
    IF use_stop_loss
    THEN [stop_loss |->
            IF side = "BUY" THEN RMul(FromInt(price), StopLossBelow)
            ELSE RMul(FromInt(price), StopLossAbove)] @@ sig
    ELSE sig

\* lines 100-104: the stop loss written into a signal that has none
with_stop_loss(sig, side, price, use_stop_loss) ==
    IF use_stop_loss /\ "stop_loss" \notin DOMAIN sig
    THEN sig @@ [stop_loss |->
            IF side = "BUY" THEN RMul(FromInt(price), StopLossBelow)
            ELSE RMul(FromInt(price), StopLossAbove)]
    ELSE sig

\* lines 107-111: the take profit written into a signal that has none
with_take_profit(sig, side, price) ==
    IF "take_profit" \notin DOMAIN sig
    THEN sig @@ [take_profit |->
            IF side = "BUY" THEN RMul(FromInt(price), TakeProfitAbove)
            ELSE RMul(FromInt(price), TakeProfitBelow)]
    ELSE sig

\* (1 - TRAILING_STOP_PCT), (1 + TRAILING_STOP_PCT)
TrailBelow == RSub(One, TRAILING_STOP_PCT)
TrailAbove == RAdd(One, TRAILING_STOP_PCT)

\* the loop body of adjust_stops that assigns the new stop without comparing
adjust_stop_unconditional(trade, price) ==
    IF "stop_loss" \notin DOMAIN trade THEN trade
    ELSE [trade EXCEPT !.stop_loss =
            IF trade.side = "BUY" THEN RMul(FromInt(price), TrailBelow)
            ELSE RMul(FromInt(price), TrailAbove)]

\* lines 150-172, the loop body of adjust_stops for one trade; price is what
\* get_current_price answered.  A trade without 'stop_loss' raises KeyError
\* at the comparison, which the except logs: the trade stays as it is.
adjust_stop(trade, price) ==
    IF "stop_loss" \notin DOMAIN trade THEN trade
    ELSE IF trade.side = "BUY"
    THEN LET new_stop == RMul(FromInt(price), TrailBelow)
         IN  IF RLt(trade.stop_loss, new_stop)
             THEN [trade EXCEPT !.stop_loss = new_stop] ELSE trade
    ELSE LET new_stop == RMul(FromInt(price), TrailAbove)
         IN  IF RLt(new_stop, trade.stop_loss)
             THEN [trade EXCEPT !.stop_loss = new_stop] ELSE trade

\* adjust_stops: nothing when trailing stops are off, else every trade in turn
adjust_stops(trades, prices, use_trailing_stop) ==
    IF ~use_trailing_stop THEN trades
    ELSE [id \in DOMAIN trades |-> adjust_stop(trades[id], prices[id])]

Outcome(res, why, sig) == [result |-> res, reason |-> why, signal |-> sig]

\* validate_trade after its update_account_state: st is the account state the
\* update left, sig the signal.  The answer is the return value ("True",
\* "False") or "raise", with the signal as the call leaves it.
validate_trade(st, positions, use_stop_loss, sig) ==
    LET symbol == sig.symbol
        side == sig.side
        quantity == sig.quantity
        price == IF "price" \in DOMAIN sig THEN sig.price ELSE 0
    IN
    IF max_trades_reached(positions)
    THEN Outcome("False", "max_open_trades", sig)
    ELSE IF symbol \in DOMAIN positions
            /\ opposite_direction(side, positions[symbol].side)
    THEN Outcome("False", "opposite_direction", sig)
    ELSE IF "balances" \notin st.attrs
    THEN Outcome("raise", "AttributeError", sig)        \* get_account_value reads self.balances
    ELSE IF price = 0
    THEN Outcome("raise", "ZeroDivisionError", sig)     \* risk_amount / price
    ELSE
    LET max_position_size == calculate_max_position_size(st.balances, price)
        reduced == RLt(max_position_size, quantity)
        quantity1 == IF reduced THEN max_position_size ELSE quantity
        sig1 == IF reduced THEN [sig EXCEPT !.quantity = quantity1] ELSE sig
    IN
    IF RLt(quantity1, min_position_size)
    THEN Outcome("False", "min_position_size", sig1)
    ELSE
    LET sig2 == with_stop_loss(sig1, side, price, use_stop_loss)
        sig3 == with_take_profit(sig2, side, price)
        trade_value == RMul(quantity1, FromInt(price))
    IN
    IF "total_exposure" \notin st.attrs
    THEN Outcome("raise", "AttributeError", sig3)       \* self.total_exposure was never assigned
    ELSE IF exposure_exceeded(st.total_exposure, trade_value, get_account_value(st.balances))
    THEN Outcome("False", "exposure", sig3)
    ELSE Outcome("True", "none", sig3)

----------------------------------------------------------------------------
(* binance_connection.py: execute_trade *)

\* place_order answers: the request fails, or the order is NEW or FILLED
OrderAnswers == {"fail", "NEW", "FILLED"}

\* the stop-loss and take-profit orders execute_trade goes on to place once
\* the entry order is FILLED (lines 138-156)
follow_up_orders(sig, entry) ==
    LET opp == IF sig.side = "BUY" THEN "SELL" ELSE "BUY"
        stop == IF "stop_loss" \in DOMAIN sig /\ entry = "FILLED"
                THEN <<[type |-> "STOP_LOSS_LIMIT", side |-> opp, quantity |-> sig.quantity]>>
                ELSE <<>>
        take == IF "take_profit" \in DOMAIN sig /\ entry = "FILLED"
                THEN <<[type |-> "LIMIT", side |-> opp, quantity |-> sig.quantity]>>
                ELSE <<>>
    IN  stop \o take

follow_ups(sig, entry) == IF entry = "fail" THEN 0 ELSE Len(follow_up_orders(sig, entry))

\* execute_trade: the orders placed for a signal.  entry is the answer to the
\* entry order, follow how many of the follow-up orders the exchange takes
\* before a request fails (the except ends the call at the first failure).
execute_trade(sig, entry, follow) ==
    IF entry = "fail" THEN <<>>
    ELSE <<[type |-> IF "order_type" \in DOMAIN sig THEN sig.order_type ELSE "MARKET",
            side |-> sig.side, quantity |-> sig.quantity]>>
         \o SubSeq(follow_up_orders(sig, entry), 1, follow)

\* a loop body that submits a second time when the entry order failed
body_calls_retrying(outcome, entry) ==
    <<"validate_trade">>
      \o (IF outcome = "True"
          THEN (IF entry = "fail" THEN <<"execute_trade", "execute_trade">>
                ELSE <<"execute_trade">>)
          ELSE <<>>)

\* main.py lines 80-84: the calls of the loop body for one signal, outcome
\* what validate_trade did and entry the answer to the entry order:
\* execute_trade is called under "if validate_trade(signal)", and its result
\* is not looked at
body_calls(outcome, entry) ==
    <<"validate_trade">> \o (IF outcome = "True" THEN <<"execute_trade">> ELSE <<>>)

----------------------------------------------------------------------------
(* The signals handed to validate_trade *)

Symbols == {"BTCUSDT", "ETHUSDT", "BNBUSDT"}
Sides == {"BUY", "SELL"}
\* below the minimum size, within the limits, above every limit
Quantities == {Rat(1, 1000000), Rat(1, 500), Rat(1, 1)}
\* 'price' absent, 0, and prices of two magnitudes
PriceOptions == {<<>>, <<0>>, <<50000>>, <<100>>}
\* <<stop_loss, take_profit>> as the strategy set them: neither, both, a
\* stop loss alone, a take profit alone
Levels ==
    { <<<<>>, <<>>>>, <<<<Rat(49000, 1)>>, <<Rat(52000, 1)>>>>,
      <<<<Rat(49000, 1)>>, <<>>>>, <<<<>>, <<Rat(52000, 1)>>>> }

NoKeys == [k \in {} |-> 0]

Signal(sym, side, q, p, sl, tp) ==
    [symbol |-> sym, side |-> side, quantity |-> q]
      @@ (IF p # <<>> THEN [price |-> p[1]] ELSE NoKeys)
      @@ (IF sl # <<>> THEN [stop_loss |-> sl[1]] ELSE NoKeys)
      @@ (IF tp # <<>> THEN [take_profit |-> tp[1]] ELSE NoKeys)

SignalSymbols == {"BTCUSDT", "ETHUSDT"}

Signals ==
    { Signal(sym, side, q, p, lv[1], lv[2]) :
        sym \in SignalSymbols, side \in Sides, q \in Quantities, p \in PriceOptions,
        lv \in Levels }

NoSignal == [symbol |-> "", side |-> "", quantity |-> FromInt(0)]

----------------------------------------------------------------------------
(* The Risk Manager's state and the trade step of the decision loop *)

AccountState == [attrs |-> attrs, balances |-> balances,
                 open_orders |-> open_orders, total_exposure |-> total_exposure]

NoBalances == [a \in {} |-> 0]
NoPositions == [s \in {} |-> 0]

\* RiskManager.__init__ before its update_account_state: no attribute assigned yet
Unassigned == [attrs |-> {}, balances |-> NoBalances, open_orders |-> {}, total_exposure |-> 0]

\* RiskManager.__init__: open_positions = {} and one update_account_state
InitRiskManager(positions, stop_loss_settings) ==
    /\ \E bf \in BalanceFetches, of \in OrderFetches :
         LET st == update_account_state(Unassigned, bf, of)
         IN  /\ attrs = st.attrs
             /\ balances = st.balances
             /\ open_orders = st.open_orders
             /\ total_exposure = st.total_exposure
    /\ open_positions = positions
    /\ USE_STOP_LOSS \in stop_loss_settings
    /\ main = "for"
    /\ signal_in = NoSignal
    /\ signal = NoSignal
    /\ result = "none"
    /\ reason = "none"
    /\ fetched = {}
    /\ placed = <<>>
    /\ calls = <<>>

\* a Risk Manager whose constructor fetched nothing, before any signal
NoRiskManager ==
    /\ attrs = {}
    /\ balances = NoBalances
    /\ open_orders = {}
    /\ total_exposure = 0
    /\ open_positions = NoPositions
    /\ USE_STOP_LOSS = TRUE
    /\ main = "for"
    /\ signal_in = NoSignal
    /\ signal = NoSignal
    /\ result = "none"
    /\ reason = "none"
    /\ fetched = {}
    /\ placed = <<>>
    /\ calls = <<>>

NoTrades == [id \in {} |-> 0]
NoPrices == [id \in {} |-> 0]

\* no dict of open trades is kept by the decision loop
NoOpenTrades ==
    /\ open_trades = NoTrades
    /\ USE_TRAILING_STOP = TRUE
    /\ current_price = NoPrices

\* the Strategy Manager before any identifier is enabled
NoStrategies ==
    /\ enabled_strategies = <<>>
    /\ strategies = {}
    /\ generated = "none"
    /\ all_signals = <<>>
    /\ invoked = <<>>
    /\ outcomes = <<>>

\* pd.DataFrame(): no columns, no rows
EmptyDataFrame == [columns |-> {}, rows |-> <<>>]

\* before any series is handed to the Ichimoku strategy
NoData ==
    /\ data = EmptyDataFrame
    /\ ichimoku = "none"
    /\ ichimoku_signals = <<>>

NoCache == [k \in {} |-> 0]
NoRequest == [symbol |-> "", timeframe |-> "", current_time |-> 0]

\* DataProcessor.__init__: both caches empty, no call made
NoMarketData ==
    /\ data_cache = NoCache
    /\ last_update = NoCache
    /\ latest_data = "none"
    /\ request = NoRequest
    /\ fetch = <<>>
    /\ latest = EmptyDataFrame

\* no frame handed to calculate_indicators
NoFrame ==
    /\ frame = EmptyDataFrame
    /\ frame_before = EmptyDataFrame
    /\ enriched = <<>>

\* combine_signals not called
NoCombine ==
    /\ combine_input = <<>>
    /\ combined = <<>>

\* no position sized
NoSizing ==
    /\ sizing_input = [account |-> 0, price |-> 1]
    /\ sizes = <<>>

\* the decision loop at the start of an iteration
NoAdjustCalls == adjust_calls = 0

\* config.py line 29 sets USE_STOP_LOSS = True; a configuration file may unset it
Init ==
    /\ InitRiskManager(NoPositions, BOOLEAN) /\ NoOpenTrades /\ NoStrategies /\ NoData
    /\ NoMarketData /\ NoFrame /\ NoCombine /\ NoSizing /\ NoAdjustCalls

\* main.py lines 79-84, for one signal of the iteration: validate_trade, then
\* execute_trade when it answers True.  An exception leaves the while loop.
TradeStep ==
    /\ main = "for"
    /\ \E bf \in BalanceFetches, of \in OrderFetches :
         LET st == update_account_state(AccountState, bf, of)
         IN  /\ attrs' = st.attrs
             /\ balances' = st.balances
             /\ open_orders' = st.open_orders
             /\ total_exposure' = st.total_exposure
             /\ fetched' = (IF bf.ok THEN {"balances"} ELSE {})
                             \cup (IF bf.ok /\ of.ok THEN {"open_orders"} ELSE {})
             /\ \E sig \in Signals :
                  LET out == validate_trade(st, open_positions, USE_STOP_LOSS, sig)
                  IN  /\ signal_in' = sig
                      /\ signal' = out.signal
                      /\ result' = out.result
                      /\ reason' = out.reason
                      /\ main' = IF out.result = "raise" THEN "stopped" ELSE "body"
                      /\ IF out.result = "True"
                         THEN \E entry \in OrderAnswers :
                                /\ \E follow \in 0..follow_ups(out.signal, entry) :
                                      placed' = execute_trade(out.signal, entry, follow)
                                /\ calls' = body_calls(out.result, entry)
                         ELSE /\ placed' = <<>>
                              /\ calls' = body_calls(out.result, "fail")
    /\ UNCHANGED <<open_positions, USE_STOP_LOSS>>
    /\ UNCHANGED <<stopVars, managerVars, ichimokuVars, dataVars, indicatorVars,
                   combineVars, sizingVars, loopVars>>

\* main.py line 79 (or 87 and 71-76 after the last signal): the loop goes on
\* to its next signal; the signal just handled is referenced no more.
NextSignal ==
    /\ main = "body"
    /\ main' = "for"
    /\ signal_in' = NoSignal
    /\ signal' = NoSignal
    /\ result' = "none"
    /\ reason' = "none"
    /\ fetched' = {}
    /\ placed' = <<>>
    /\ calls' = <<>>
    /\ UNCHANGED <<attrs, balances, open_orders, total_exposure, open_positions, USE_STOP_LOSS>>
    /\ UNCHANGED <<stopVars, managerVars, ichimokuVars, dataVars, indicatorVars,
                   combineVars, sizingVars, loopVars>>

Next == TradeStep \/ NextSignal

\* open_positions is assigned by no method of the repository: the map is the
\* RiskManager's public attribute and its holders fill it.  This specification
\* starts the same program from every position map within the limit (the
\* position on the symbol no signal names is a long one).
PositionMaps ==
    { m \in UNION {[D -> [side : Sides]] : D \in SUBSET Symbols} :
        /\ Cardinality(DOMAIN m) <= MAX_OPEN_TRADES
        /\ \A s \in DOMAIN m \ SignalSymbols : m[s].side = "BUY" }

InitPositions ==
    /\ (\E m \in PositionMaps : InitRiskManager(m, {TRUE})) /\ NoOpenTrades /\ NoStrategies /\ NoData
    /\ NoMarketData /\ NoFrame /\ NoCombine /\ NoSizing /\ NoAdjustCalls

SpecPositions == InitPositions /\ [][Next]_vars

----------------------------------------------------------------------------
(* adjust_stops on a caller's dict of open trades *)

TradeIds == {1, 2}
\* 'stop_loss' absent, a stop below the market, a stop above it
TradeStops == {<<>>, <<Rat(49000, 1)>>, <<Rat(51000, 1)>>}

\* a trade as execute_trade's caller would keep it: symbol, side, entry price
Trade(side, sl) ==
    [symbol |-> SYMBOL, side |-> side, price |-> 50000]
      @@ (IF sl # <<>> THEN [stop_loss |-> sl[1]] ELSE NoKeys)

Trades == {Trade(side, sl) : side \in Sides, sl \in TradeStops}

\* get_current_price answers the placeholder 50000 (line 177); the exchange
\* price it stands for is any of these, the placeholder among them.
CurrentPrices == {49000, 50000, 50500}

InitStops ==
    /\ InitRiskManager(NoPositions, {TRUE})
    /\ open_trades \in UNION {[D -> Trades] : D \in SUBSET TradeIds}
    /\ USE_TRAILING_STOP \in BOOLEAN
    /\ current_price = NoPrices
    /\ NoStrategies
    /\ NoData
    /\ NoMarketData /\ NoFrame /\ NoCombine /\ NoSizing /\ NoAdjustCalls

\* one call of adjust_stops(open_trades)
AdjustStops ==
    /\ \E prices \in [DOMAIN open_trades -> CurrentPrices] :
         /\ open_trades' = adjust_stops(open_trades, prices, USE_TRAILING_STOP)
         /\ current_price' = IF USE_TRAILING_STOP THEN prices ELSE NoPrices
    /\ UNCHANGED USE_TRAILING_STOP
    /\ UNCHANGED <<tradeVars, managerVars, ichimokuVars, dataVars, indicatorVars,
                   combineVars, sizingVars, loopVars>>

NextStops == AdjustStops

SpecStops == InitStops /\ [][NextStops]_vars

Spec == Init /\ [][Next]_vars

----------------------------------------------------------------------------
(* strategy_manager.py *)

\* identifiers: two keys of strategy_modules and one that is none
StrategyNames == {"ichimoku", "vwap", "custom"}
strategy_modules == {"ichimoku", "vwap"}

MaxEnabled == 2
EnabledLists == UNION {[1..n -> StrategyNames] : n \in 0..MaxEnabled}

Range(seq) == {seq[i] : i \in 1..Len(seq)}

\* _load_strategies: every enabled identifier that is a key of
\* strategy_modules and whose module imports and constructs (constructible)
\* is put into the registry; nothing is taken out of it.
load_strategies(registry, enabled, constructible) ==
    registry \cup {name \in Range(enabled) :
                      name \in strategy_modules /\ name \in constructible}

\* a strategy's signals: confidence is optional, in tenths
StrategySignal(name, side, conf) ==
    [strategy |-> name, symbol |-> SYMBOL, side |-> side]
      @@ (IF conf # <<>> THEN [confidence |-> conf[1]] ELSE NoKeys)

Raised == [raised |-> TRUE, signals |-> <<>>]
Returned(sigs) == [raised |-> FALSE, signals |-> sigs]

\* what strategy.generate_signals(data) may do: raise, or return a list
StrategyOutcomes(name) ==
    { Raised,
      Returned(<<>>),
      Returned(<<StrategySignal(name, "BUY", <<>>)>>),
      Returned(<<StrategySignal(name, "SELL", <<3>>)>>),
      Returned(<<StrategySignal(name, "BUY", <<8>>)>>),
      Returned(<<StrategySignal(name, "BUY", <<3>>), StrategySignal(name, "SELL", <<8>>)>>),
      Returned(<<StrategySignal(name, "SELL", <<>>), StrategySignal(name, "BUY", <<8>>)>>) }

\* the loop that ends at the first strategy that raises
RECURSIVE run_strategies_until_error(_, _, _, _, _)
run_strategies_until_error(enabled, registry, outs, i, acc) ==
    IF i > Len(enabled) THEN acc
    ELSE IF enabled[i] \notin registry
    THEN run_strategies_until_error(enabled, registry, outs, i + 1, acc)
    ELSE IF outs[i].raised
    THEN [acc EXCEPT !.invoked = Append(@, i)]
    ELSE run_strategies_until_error(enabled, registry, outs, i + 1,
            [signals |-> acc.signals \o outs[i].signals, invoked |-> Append(acc.invoked, i)])

\* lines 84-94: the loop over the enabled list from position i on, acc what
\* the earlier positions left: an identifier without an instance is skipped,
\* a strategy that raises is logged and adds nothing, any other extends the list
RECURSIVE run_strategies(_, _, _, _, _)
run_strategies(enabled, registry, outs, i, acc) ==
    IF i > Len(enabled) THEN acc
    ELSE IF enabled[i] \notin registry
    THEN run_strategies(enabled, registry, outs, i + 1, acc)
    ELSE IF outs[i].raised
    THEN run_strategies(enabled, registry, outs, i + 1,
            [acc EXCEPT !.invoked = Append(@, i)])
    ELSE run_strategies(enabled, registry, outs, i + 1,
            [signals |-> acc.signals \o outs[i].signals, invoked |-> Append(acc.invoked, i)])

\* x.get('confidence', 0)
confidence_key(sig) == IF "confidence" \in DOMAIN sig THEN sig.confidence ELSE 0

\* list.sort(key, reverse=True) is stable: x goes behind every element whose
\* key is not smaller
RECURSIVE insert_by_key(_, _)
insert_by_key(sorted, x) ==
    IF sorted = <<>> THEN <<x>>
    ELSE IF confidence_key(Head(sorted)) >= confidence_key(x)
    THEN <<Head(sorted)>> \o insert_by_key(Tail(sorted), x)
    ELSE <<x>> \o sorted

RECURSIVE sort_descending(_, _)
sort_descending(list, sorted) ==
    IF list = <<>> THEN sorted
    ELSE sort_descending(Tail(list), insert_by_key(sorted, Head(list)))

\* lines 96-98: sorted when the first signal has a 'confidence' key
sort_signals(list) ==
    IF list # <<>> /\ "confidence" \in DOMAIN list[1]
    THEN sort_descending(list, <<>>) ELSE list

\* generate_signals(data): the signals returned and the positions invoked
generate_signals(enabled, registry, outs) ==
    LET ran == run_strategies(enabled, registry, outs, 1, [signals |-> <<>>, invoked |-> <<>>])
    IN  [signals |-> sort_signals(ran.signals), invoked |-> ran.invoked]

\* StrategyManager.__init__: the configured list, then _load_strategies
InitStrategies ==
    /\ NoRiskManager
    /\ NoOpenTrades
    /\ enabled_strategies \in EnabledLists
    /\ \E constructible \in SUBSET strategy_modules :
         strategies = load_strategies({}, enabled_strategies, constructible)
    /\ generated = "none"
    /\ all_signals = <<>>
    /\ invoked = <<>>
    /\ outcomes = <<>>
    /\ NoData
    /\ NoMarketData /\ NoFrame /\ NoCombine /\ NoSizing /\ NoAdjustCalls

\* set_enabled_strategies(strategy_list)
SetEnabledStrategies ==
    /\ generated = "none"
    /\ \E list \in EnabledLists, constructible \in SUBSET strategy_modules :
         /\ enabled_strategies' = list
         /\ strategies' = load_strategies(strategies, list, constructible)
    /\ UNCHANGED <<generated, all_signals, invoked, outcomes>>
    /\ UNCHANGED <<tradeVars, stopVars, ichimokuVars, dataVars, indicatorVars,
                   combineVars, sizingVars, loopVars>>

\* generate_signals(data) (main.py line 76)
GenerateSignals ==
    /\ generated = "none"
    /\ \E outs \in [1..Len(enabled_strategies) ->
                      UNION {StrategyOutcomes(name) : name \in StrategyNames}] :
         /\ \A i \in 1..Len(enabled_strategies) :
               outs[i] \in StrategyOutcomes(enabled_strategies[i])
         /\ LET got == generate_signals(enabled_strategies, strategies, outs)
            IN  /\ all_signals' = got.signals
                /\ invoked' = got.invoked
                /\ outcomes' = [i \in 1..Len(enabled_strategies) |->
                                  IF i \in Range(got.invoked) THEN outs[i] ELSE Returned(<<>>)]
         /\ generated' = "returned"
    /\ UNCHANGED <<enabled_strategies, strategies>>
    /\ UNCHANGED <<tradeVars, stopVars, ichimokuVars, dataVars, indicatorVars,
                   combineVars, sizingVars, loopVars>>

\* main.py lines 79-87: the list is consumed and dropped
SignalsConsumed ==
    /\ generated = "returned"
    /\ generated' = "none"
    /\ all_signals' = <<>>
    /\ invoked' = <<>>
    /\ outcomes' = <<>>
    /\ UNCHANGED <<enabled_strategies, strategies>>
    /\ UNCHANGED <<tradeVars, stopVars, ichimokuVars, dataVars, indicatorVars,
                   combineVars, sizingVars, loopVars>>

NextStrategies == SetEnabledStrategies \/ GenerateSignals \/ SignalsConsumed

SpecStrategies == InitStrategies /\ [][NextStrategies]_vars

----------------------------------------------------------------------------
(* ichimoku.py *)

\* config.ICHIMOKU
tenkan_period == 9
kijun_period == 26
senkou_span_b_period == 52
displacement == 26

\* a float that is not a number: every comparison with it is False
NaN == [nan |-> TRUE]
IsNaN(x) == "nan" \in DOMAIN x
Gt(a, b) == ~IsNaN(a) /\ ~IsNaN(b) /\ RLt(b, a)
Lt(a, b) == ~IsNaN(a) /\ ~IsNaN(b) /\ RLt(a, b)
Ge(a, b) == ~IsNaN(a) /\ ~IsNaN(b) /\ RLe(b, a)
Le(a, b) == ~IsNaN(a) /\ ~IsNaN(b) /\ RLe(a, b)

\* Python's max(a, b) and min(a, b): b when b > a (b < a), else a
py_max(a, b) == IF Gt(b, a) THEN b ELSE a
py_min(a, b) == IF Lt(b, a) THEN b ELSE a

Highest(S) == CHOOSE x \in S : \A y \in S : y <= x
Lowest(S) == CHOOSE x \in S : \A y \in S : x <= y

\* Rows are numbered from 1; iloc[-k] is row Len(rows) - k + 1.
\* df[column].rolling(window).max() at row i: NaN until the window is full
rolling_max(rows, column, window, i) ==
    IF i < window THEN NaN
    ELSE FromInt(Highest({rows[k][column] : k \in (i - window + 1)..i}))

rolling_min(rows, column, window, i) ==
    IF i < window THEN NaN
    ELSE FromInt(Lowest({rows[k][column] : k \in (i - window + 1)..i}))

\* (a + b) / 2 on floats
half_sum(a, b) ==
    IF IsNaN(a) \/ IsNaN(b) THEN NaN ELSE RDiv(RAdd(a, b), FromInt(2))

\* calculate_ichimoku, column by column, at row i
tenkan_sen(rows, i) ==
    half_sum(rolling_max(rows, "high", tenkan_period, i),
             rolling_min(rows, "low", tenkan_period, i))

kijun_sen(rows, i) ==
    half_sum(rolling_max(rows, "high", kijun_period, i),
             rolling_min(rows, "low", kijun_period, i))

\* .shift(displacement): row i holds what row i - displacement computed
senkou_span_a(rows, i) ==
    IF i - displacement < 1 THEN NaN
    ELSE half_sum(tenkan_sen(rows, i - displacement), kijun_sen(rows, i - displacement))

senkou_span_b(rows, i) ==
    IF i - displacement < 1 THEN NaN
    ELSE half_sum(rolling_max(rows, "high", senkou_span_b_period, i - displacement),
                  rolling_min(rows, "low", senkou_span_b_period, i - displacement))

\* .shift(-displacement): row i holds the close of row i + displacement
chikou_span(rows, i) ==
    IF i + displacement > Len(rows) THEN NaN ELSE FromInt(rows[i + displacement].close)

\* get_account_balance: the placeholder
ichimoku_account_balance == 10000

\* round(x, 6) of a non-negative x, ties to even
round6(x) ==
    LET scaled == x.n * 1000000
        q == scaled \div x.d
        r == scaled % x.d
    IN  IF 2 * r > x.d \/ (2 * r = x.d /\ q % 2 = 1)
        THEN Rat(q + 1, 1000000) ELSE Rat(q, 1000000)

\* calculate_position_size(price, side)
calculate_position_size(price) ==
    round6(PyMin(RDiv(RMul(FromInt(ichimoku_account_balance), RISK_PER_TRADE), price),
                 MAX_POSITION_SIZE))

\* the signal dicts of lines 105-126, without the wall-clock 'timestamp'
buy_signal_dict(price, kijun) ==
    [strategy |-> "ichimoku", symbol |-> SYMBOL, side |-> "BUY", price |-> price,
     quantity |-> calculate_position_size(price),
     stop_loss |-> RMul(kijun, Rat(99, 100)),
     take_profit |-> RAdd(price, RMul(RSub(price, kijun), FromInt(2)))]

sell_signal_dict(price, kijun) ==
    [strategy |-> "ichimoku", symbol |-> SYMBOL, side |-> "SELL", price |-> price,
     quantity |-> calculate_position_size(price),
     stop_loss |-> RMul(kijun, Rat(101, 100)),
     take_profit |-> RSub(price, RMul(RSub(kijun, price), FromInt(2)))]

IchimokuReturned(sigs) == [outcome |-> "returned", error |-> "none", signals |-> sigs]
IchimokuRaised(error) == [outcome |-> "raise", error |-> error, signals |-> <<>>]

\* the columns calculate_ichimoku reads
IchimokuColumns == {"high", "low", "close"}

\* generate_signals(data): calculate_ichimoku runs on the copy first (line 53)
\* and df['high'] raises KeyError when the frame has no such column; the
\* length test comes after it (line 59).
ichimoku_generate_signals(df) ==
    IF ~(IchimokuColumns \subseteq df.columns) THEN IchimokuRaised("KeyError")
    ELSE
    LET rows == df.rows
        n == Len(rows)
    IN  IF n < senkou_span_b_period + displacement THEN IchimokuReturned(<<>>)
        ELSE
        LET price == FromInt(rows[n].close)
            tenkan == tenkan_sen(rows, n)
            kijun == kijun_sen(rows, n)
            span_a == senkou_span_a(rows, n)
            span_b == senkou_span_b(rows, n)
            has_chikou == n > displacement + 1
            chikou == IF has_chikou THEN chikou_span(rows, n - displacement) ELSE NaN
            prev_tenkan == tenkan_sen(rows, n - 1)
            prev_kijun == kijun_sen(rows, n - 1)
            cloud_top == py_max(span_a, span_b)
            cloud_bottom == py_min(span_a, span_b)
            bullish_cloud == Gt(span_a, span_b)
            lagged_close == FromInt(rows[n - 2 * displacement].close)
            tk_cross_bullish == Gt(tenkan, kijun) /\ Le(prev_tenkan, prev_kijun)
            price_above_cloud == Gt(price, cloud_top)
            chikou_bullish ==
                IF n > 2 * displacement + 1
                THEN has_chikou /\ Gt(chikou, lagged_close) ELSE FALSE
            buy_signal == tk_cross_bullish /\ price_above_cloud /\ bullish_cloud /\ chikou_bullish
            tk_cross_bearish == Lt(tenkan, kijun) /\ Ge(prev_tenkan, prev_kijun)
            price_below_cloud == Lt(price, cloud_bottom)
            chikou_bearish ==
                IF n > 2 * displacement + 1
                THEN has_chikou /\ Lt(chikou, lagged_close) ELSE FALSE
            sell_signal == tk_cross_bearish /\ price_below_cloud /\ ~bullish_cloud /\ chikou_bearish
        IN  IchimokuReturned(
              (IF buy_signal THEN <<buy_signal_dict(price, kijun)>> ELSE <<>>)
                \o (IF sell_signal THEN <<sell_signal_dict(price, kijun)>> ELSE <<>>))

\* Candle series: the price is base up to a step, the level after it, and one
\* candle a few rows before the end departs from the level; high and low
\* lie a wick above and below the close.
Candle(close, wick) == [high |-> close + wick, low |-> close - wick, close |-> close]

Series(n, step_at, level, back, departure, wick) ==
    [columns |-> {"open", "high", "low", "close", "volume"},
     rows |-> [i \in 1..n |->
                 Candle((IF i < step_at THEN 100 ELSE level)
                          + (IF i = n - back THEN departure ELSE 0), wick)]]

SeriesLengths == {0, 1, 27, 53, 77, 78, 79, 80}
StepRows == {30, 40, 70}
StepLevels == {90, 100, 110}
Departures == {-4, 0, 4}
Wicks == {0, 1}

\* what get_latest_data hands over: candles, or pd.DataFrame() when the fetch
\* failed and nothing is cached (data_processor.py line 68)
DataFrames ==
    {EmptyDataFrame} \cup
    {Series(n, s, l, 9, d, w) : n \in SeriesLengths, s \in StepRows, l \in StepLevels,
                                d \in Departures, w \in Wicks}

InitIchimoku ==
    /\ InitRiskManager(NoPositions, {TRUE})
    /\ NoOpenTrades
    /\ NoStrategies
    /\ data \in DataFrames
    /\ ichimoku = "none"
    /\ ichimoku_signals = <<>>
    /\ NoMarketData /\ NoFrame /\ NoCombine /\ NoSizing /\ NoAdjustCalls

\* strategy.generate_signals(data) for the Ichimoku strategy
IchimokuSignals ==
    /\ ichimoku = "none"
    /\ LET got == ichimoku_generate_signals(data)
       IN  /\ ichimoku' = got.outcome
           /\ ichimoku_signals' = got.signals
    /\ UNCHANGED data
    /\ UNCHANGED <<tradeVars, stopVars, managerVars, dataVars, indicatorVars,
                   combineVars, sizingVars, loopVars>>

\* the next cycle: get_latest_data serves the cached frame again
NextCycle ==
    /\ ichimoku # "none"
    /\ ichimoku' = "none"
    /\ ichimoku_signals' = <<>>
    /\ UNCHANGED data
    /\ UNCHANGED <<tradeVars, stopVars, managerVars, dataVars, indicatorVars,
                   combineVars, sizingVars, loopVars>>

NextIchimoku == IchimokuSignals \/ NextCycle

SpecIchimoku == InitIchimoku /\ [][NextIchimoku]_vars

----------------------------------------------------------------------------
(* data_processor.py *)

\* config.TIMEFRAMES, two of its six entries: seconds per candle
TIMEFRAMES == [tf \in {"1m", "5m"} |-> IF tf = "1m" THEN 60 ELSE 300]

\* the timeframes a caller asks for: two of config.TIMEFRAMES and one the
\* exchange serves that config.TIMEFRAMES has no entry for
Timeframes == {"1m", "5m", "3m"}

\* f"{symbol}_{timeframe}"
cache_key_of(symbol, timeframe) == <<symbol, timeframe>>

\* the columns _klines_to_dataframe names, open_time being the index
KlineColumns ==
    {"open", "high", "low", "close", "volume", "close_time", "quote_asset_volume",
     "number_of_trades", "taker_buy_base_asset_volume", "taker_buy_quote_asset_volume",
     "ignore"}

\* _klines_to_dataframe(klines): one row per candle
klines_to_dataframe(klines) == [columns |-> KlineColumns, rows |-> klines]

\* the columns calculate_indicators assigns on the frame it is given
IndicatorColumns ==
    {"sma_20", "sma_50", "sma_200", "ema_12", "ema_26", "macd_line", "macd_signal",
     "macd_histogram", "rsi", "bb_upper", "bb_middle", "bb_lower", "obv"}

\* the columns calculate_pivot_points assigns on its copy
PivotColumns == {"pivot", "r1", "s1", "r2", "s2", "r3", "s3"}

\* df.empty: an axis of length 0
is_empty(df) == df.columns = {} \/ df.rows = <<>>

\* calculate_vwap(df): a new frame with df's columns and 'vwap'
calculate_vwap(df) == [df EXCEPT !.columns = @ \cup {"vwap"}]

\* calculate_pivot_points(df): a copy with the pivot columns
calculate_pivot_points(df) == [df EXCEPT !.columns = @ \cup PivotColumns]

\* calculate_indicators(df): what the call leaves in the object it was given
\* (input) and the frame it returns (output).  Lines 99-121 assign the
\* indicator columns on df itself; calculate_vwap and calculate_pivot_points
\* return new frames.  The values of a derived column are a function of the
\* candle rows, so a frame is given by its columns and its rows.
calculate_indicators(df) ==
    IF is_empty(df) THEN [input |-> df, output |-> df]
    ELSE LET assigned == [df EXCEPT !.columns = @ \cup IndicatorColumns]
         IN  [input |-> assigned,
              output |-> calculate_pivot_points(calculate_vwap(assigned))]

\* what get_klines and the recomputation after it may do: the request raises,
\* or it answers candles and calculate_indicators raises or returns
KlinesAnswers == {<<>>, <<Candle(100, 1)>>, <<Candle(100, 1), Candle(110, 1)>>}
Refreshes ==
    {[fetched |-> FALSE, computed |-> FALSE, klines |-> <<>>],
     [fetched |-> TRUE, computed |-> FALSE, klines |-> <<Candle(100, 1)>>]}
      \cup {[fetched |-> TRUE, computed |-> TRUE, klines |-> k] : k \in KlinesAnswers}

\* the cache is served for the whole candle period
is_fresh_for_period(seconds_since_update, timeframe) ==
    seconds_since_update < TIMEFRAMES[timeframe]

\* line 41: seconds_since_update < TIMEFRAMES[timeframe] / 2
is_fresh(seconds_since_update, timeframe) ==
    2 * seconds_since_update < TIMEFRAMES[timeframe]

\* an except branch that always answers pd.DataFrame()
on_refresh_error_empty(cache, key) == EmptyDataFrame

\* lines 61-68: the cached frame if there is one, else pd.DataFrame()
on_refresh_error(cache, key) ==
    IF key \in DOMAIN cache THEN cache[key] ELSE EmptyDataFrame

\* an except branch that records the failed attempt as a refresh
caches_after_error_stamped(cache, updates, key, current_time) ==
    [data_cache |-> cache, last_update |-> (key :> current_time) @@ updates]

\* lines 61-68 assign neither self.data_cache nor self.last_update
caches_after_error(cache, updates, key, current_time) ==
    [data_cache |-> cache, last_update |-> updates]

\* get_latest_data(symbol, timeframe) at current_time, the exchange doing
\* refresh if it is asked: the outcome, the frame returned, whether candles
\* were fetched, and the two caches after the call
get_latest_data(cache, updates, symbol, timeframe, current_time, refresh) ==
    LET key == cache_key_of(symbol, timeframe)
        kept == [data_cache |-> cache, last_update |-> updates]
    IN  IF key \in DOMAIN updates /\ timeframe \notin DOMAIN TIMEFRAMES
        THEN kept @@ [outcome |-> "raise", result |-> EmptyDataFrame, fetch |-> <<>>]
        ELSE IF key \in DOMAIN updates /\ is_fresh(current_time - updates[key], timeframe)
        THEN kept @@ [outcome |-> "returned", result |-> cache[key], fetch |-> <<>>]
        ELSE IF refresh.fetched /\ refresh.computed
        THEN LET df == calculate_indicators(klines_to_dataframe(refresh.klines)).output
             IN  [outcome |-> "returned", result |-> df, fetch |-> <<refresh>>,
                  data_cache |-> (key :> df) @@ cache,
                  last_update |-> (key :> current_time) @@ updates]
        ELSE caches_after_error(cache, updates, key, current_time)
               @@ [outcome |-> "returned", result |-> on_refresh_error(cache, key),
                   fetch |-> <<refresh>>]

\* pd.Timestamp.now() at the calls: seconds
Instants == {0, 30, 150, 151}

InitData ==
    /\ NoRiskManager /\ NoOpenTrades /\ NoStrategies /\ NoData
    /\ NoMarketData
    /\ NoFrame /\ NoCombine /\ NoSizing /\ NoAdjustCalls

\* one call of get_latest_data
GetLatestData ==
    /\ latest_data = "none"
    /\ \E timeframe \in Timeframes, current_time \in Instants, refresh \in Refreshes :
         LET got == get_latest_data(data_cache, last_update, SYMBOL, timeframe,
                                    current_time, refresh)
         IN  /\ data_cache' = got.data_cache
             /\ last_update' = got.last_update
             /\ latest_data' = got.outcome
             /\ latest' = got.result
             /\ fetch' = got.fetch
             /\ request' = [symbol |-> SYMBOL, timeframe |-> timeframe,
                            current_time |-> current_time]
    /\ UNCHANGED <<tradeVars, stopVars, managerVars, ichimokuVars, indicatorVars,
                   combineVars, sizingVars, loopVars>>

\* the caller is done with the frame
DataConsumed ==
    /\ latest_data # "none"
    /\ latest_data' = "none"
    /\ request' = NoRequest
    /\ fetch' = <<>>
    /\ latest' = EmptyDataFrame
    /\ UNCHANGED <<data_cache, last_update>>
    /\ UNCHANGED <<tradeVars, stopVars, managerVars, ichimokuVars, indicatorVars,
                   combineVars, sizingVars, loopVars>>

NextData == GetLatestData \/ DataConsumed

SpecData == InitData /\ [][NextData]_vars

----------------------------------------------------------------------------
(* calculate_indicators on a caller's frame *)

MaxRows == 5

\* the frames _klines_to_dataframe builds from up to MaxRows candles, and pd.DataFrame()
InputFrames ==
    {EmptyDataFrame} \cup
    {klines_to_dataframe(k) :
        k \in UNION {[1..n -> {Candle(100, 1), Candle(110, 1)}] : n \in 0..MaxRows}}

InitIndicators ==
    /\ NoRiskManager /\ NoOpenTrades /\ NoStrategies /\ NoData
    /\ NoMarketData /\ NoCombine /\ NoSizing /\ NoAdjustCalls
    /\ frame \in InputFrames
    /\ frame_before = frame
    /\ enriched = <<>>

\* calculate_indicators(frame): the caller keeps the object and may call again
CalculateIndicators ==
    /\ LET got == calculate_indicators(frame)
       IN  /\ frame_before' = frame
           /\ frame' = got.input
           /\ enriched' = <<got.output>>
    /\ UNCHANGED <<tradeVars, stopVars, managerVars, ichimokuVars, dataVars,
                   combineVars, sizingVars, loopVars>>

NextIndicators == CalculateIndicators

SpecIndicators == InitIndicators /\ [][NextIndicators]_vars

----------------------------------------------------------------------------
(* strategy_manager.py: combine_signals *)

\* the share of one side reaches the threshold
reaches_threshold(percentage) == RLe(Rat(6, 10), percentage)

\* lines 121 and 128: percentage > 0.6
exceeds_threshold(percentage) == RLt(Rat(6, 10), percentage)

\* max(list, key=...): the first element whose key no later element exceeds
RECURSIVE max_by_confidence(_, _)
max_by_confidence(list, best) ==
    IF list = <<>> THEN best
    ELSE max_by_confidence(Tail(list),
            IF confidence_key(Head(list)) > confidence_key(best) THEN Head(list) ELSE best)

\* lines 125 and 132: the signal with the highest confidence when the side's
\* first signal has a 'confidence' key, else the side's first signal
best_signal(side_signals) ==
    IF "confidence" \in DOMAIN side_signals[1]
    THEN max_by_confidence(Tail(side_signals), Head(side_signals))
    ELSE side_signals[1]

IsBuy(sig) == sig.side = "BUY"
IsSell(sig) == sig.side = "SELL"

\* combine_signals(signals)
combine_signals(signals) ==
    LET buy_signals == SelectSeq(signals, IsBuy)
        sell_signals == SelectSeq(signals, IsSell)
        total_signals == Len(signals)
    IN  IF total_signals = 0 THEN <<>>
        ELSE
        LET buy_percentage == Rat(Len(buy_signals), total_signals)
            sell_percentage == Rat(Len(sell_signals), total_signals)
        IN  (IF exceeds_threshold(buy_percentage) /\ buy_signals # <<>>
             THEN <<best_signal(buy_signals)>> ELSE <<>>)
              \o (IF exceeds_threshold(sell_percentage) /\ sell_signals # <<>>
                  THEN <<best_signal(sell_signals)>> ELSE <<>>)

MaxSignals == 5

\* the i-th signal of a list: its strategy tells it from the others
\* (confidence in tenths, as in StrategySignal)
Confidences == {<<>>, <<3>>, <<8>>}
SignalAt(i, side, conf) ==
    [strategy |-> i, symbol |-> SYMBOL, side |-> side]
      @@ (IF conf # <<>> THEN [confidence |-> conf[1]] ELSE NoKeys)

\* every list of up to MaxSignals signals
InitCombine ==
    /\ NoRiskManager /\ NoOpenTrades /\ NoStrategies /\ NoData
    /\ NoMarketData /\ NoFrame /\ NoSizing /\ NoAdjustCalls
    /\ \E n \in 0..MaxSignals :
         \E sides \in [1..n -> Sides], confs \in [1..n -> Confidences] :
            combine_input = [i \in 1..n |-> SignalAt(i, sides[i], confs[i])]
    /\ combined = <<>>

\* combine_signals(combine_input)
CombineSignals ==
    /\ combined = <<>>
    /\ combined' = <<combine_signals(combine_input)>>
    /\ UNCHANGED combine_input
    /\ UNCHANGED <<tradeVars, stopVars, managerVars, ichimokuVars, dataVars,
                   indicatorVars, sizingVars, loopVars>>

NextCombine == CombineSignals

SpecCombine == InitCombine /\ [][NextCombine]_vars

----------------------------------------------------------------------------
(* base_strategy.py: calculate_position_size, beside the Risk Manager's sizing *)

\* BaseStrategy.get_account_balance: the free quote currency, 10000 when none is held
DefaultAccountBalance == 10000
base_get_account_balance(bal) ==
    IF quote_currency \in DOMAIN bal THEN bal[quote_currency].free
    ELSE DefaultAccountBalance

\* BaseStrategy.calculate_position_size(price, side) (price > 0)
base_calculate_position_size(bal, price) ==
    LET account_balance == base_get_account_balance(bal)
        risk_amount == RMul(FromInt(account_balance), RISK_PER_TRADE)
        position_size == RDiv(risk_amount, FromInt(price))
    IN  round6(PyMin(position_size, MAX_POSITION_SIZE))

\* the free quote currency of the account and the price sized for
SizingAccounts == {0, 7, 100, 10000, 150000}
SizingPrices == {1, 3, 7, 100, 1000, 20000, 30000, 40000, 50000, 60000, 70000, 90000}

SizingBalances == get_account_balance(Acct(sizing_input.account, 0, 0, 0))

InitSizing ==
    /\ NoRiskManager /\ NoOpenTrades /\ NoStrategies /\ NoData
    /\ NoMarketData /\ NoFrame /\ NoCombine /\ NoAdjustCalls
    /\ sizing_input \in [account : SizingAccounts, price : SizingPrices]
    /\ sizes = <<>>

\* a strategy and the Risk Manager size a position at the same price
SizePosition ==
    /\ sizes = <<>>
    /\ sizes' = <<[strategy |-> base_calculate_position_size(SizingBalances, sizing_input.price),
                   risk_manager |-> calculate_max_position_size(SizingBalances, sizing_input.price)]>>
    /\ UNCHANGED sizing_input
    /\ UNCHANGED <<tradeVars, stopVars, managerVars, ichimokuVars, dataVars,
                   indicatorVars, combineVars, loopVars>>

NextSizing == SizePosition

SpecSizing == InitSizing /\ [][NextSizing]_vars

----------------------------------------------------------------------------
(* main.py: the iterations of the decision loop *)

\* the loop as main() sets it up: the configured trailing-stop switch, no
\* dict of open trades
InitLoop ==
    /\ InitRiskManager(NoPositions, {TRUE})
    /\ open_trades = NoTrades
    /\ USE_TRAILING_STOP \in BOOLEAN
    /\ current_price = NoPrices
    /\ NoStrategies /\ NoData
    /\ NoMarketData /\ NoFrame /\ NoCombine /\ NoSizing
    /\ adjust_calls = 0

\* line 87: after the last signal the iteration ends in time.sleep; between
\* lines 71 and 87 the loop calls get_latest_data, generate_signals,
\* validate_trade and execute_trade, and nothing else of the Risk Manager
Sleep ==
    /\ main = "for"
    /\ main' = "sleep"
    /\ UNCHANGED adjust_calls
    /\ UNCHANGED <<attrs, balances, open_orders, total_exposure, open_positions,
                   USE_STOP_LOSS, signal_in, signal, result, reason, fetched, placed, calls>>
    /\ UNCHANGED <<stopVars, managerVars, ichimokuVars, dataVars, indicatorVars,
                   combineVars, sizingVars>>

\* line 70: the next iteration begins
NextIteration ==
    /\ main = "sleep"
    /\ main' = "for"
    /\ adjust_calls' = 0
    /\ UNCHANGED <<attrs, balances, open_orders, total_exposure, open_positions,
                   USE_STOP_LOSS, signal_in, signal, result, reason, fetched, placed, calls>>
    /\ UNCHANGED <<stopVars, managerVars, ichimokuVars, dataVars, indicatorVars,
                   combineVars, sizingVars>>

NextLoop == TradeStep \/ NextSignal \/ Sleep \/ NextIteration

SpecLoop == InitLoop /\ [][NextLoop]_vars

----------------------------------------------------------------------------
(* Claims about validate_trade *)

Validated == result # "none"
Accepted == result = "True"
Rejected == result = "False"
\* the calls that got as far as sizing the position
Sized == Validated /\ reason \notin {"max_open_trades", "opposite_direction"}

\* the account value the last call read, and the limits of the spec's section 4.4
AccountValue ==
    IF "USDT" \in DOMAIN balances THEN balances["USDT"].total ELSE 10000
RiskLimit == RDiv(RMul(FromInt(AccountValue), Rat(1, 100)), FromInt(signal.price))
SizeLimit == IF RLt(Rat(1, 100), RiskLimit) THEN Rat(1, 100) ELSE RiskLimit

\* C1: for every signal validate_trade accepts, the total exposure the Risk
\* Manager holds plus final quantity x price is at most 0.9 x account value.
C1_ExposureCeiling ==
    Accepted =>
        RLe(RAdd(FromInt(total_exposure), RMul(signal.quantity, FromInt(signal.price))),
            RMul(Rat(9, 10), FromInt(AccountValue)))

\* an accepted trade on an account that already carries exposure, its
\* quantity cut down by the call
C1_Witness ==
    /\ Accepted
    /\ total_exposure > 0
    /\ RLt(signal.quantity, signal_in.quantity)

\* C2: every validate_trade decision is made on a snapshot fetched from the
\* exchange during that same call: the sizing on balances fetched in the call,
\* the exposure check on an exposure computed in the call.
C2_FreshSnapshot ==
    /\ (Sized /\ result \in {"True", "False"}) => "balances" \in fetched
    /\ (Accepted \/ reason = "exposure") => "open_orders" \in fetched

\* C3: the final quantity q of an accepted signal satisfies
\* 0.00001 <= q <= min(account_value x RISK_PER_TRADE / price, MAX_POSITION_SIZE);
\* a request above that maximum is cut to the maximum, written into the signal.
C3_QuantityLimits ==
    Accepted =>
        /\ RLe(Rat(1, 100000), signal.quantity)
        /\ RLe(signal.quantity, SizeLimit)
        /\ signal.quantity = IF RLt(SizeLimit, signal_in.quantity) THEN SizeLimit
                             ELSE signal_in.quantity

\* a request above the maximum, accepted at the maximum
C3_Witness ==
    /\ Accepted
    /\ RLt(SizeLimit, signal_in.quantity)
    /\ signal.quantity = SizeLimit

\* C7: validate_trade ends with True or False and never raises.
C7_NeverRaises == result # "raise" /\ main # "stopped"

\* C8: once validate_trade accepted a signal and the loop forwarded it, the
\* Risk Manager holds a position for the signal's symbol with the signal's side.
C8_PositionRecorded ==
    (Accepted /\ main = "body") =>
        /\ signal.symbol \in DOMAIN open_positions
        /\ open_positions[signal.symbol].side = signal.side

\* C9: the position map never holds more than MAX_OPEN_TRADES entries, and
\* validate_trade rejects every signal while it holds MAX_OPEN_TRADES or more.
C9_MaxOpenTrades ==
    /\ Cardinality(DOMAIN open_positions) <= 3
    /\ (Validated /\ Cardinality(DOMAIN open_positions) >= 3) => Rejected

\* a same-direction add refused because the map is full
C9_Witness ==
    /\ Rejected
    /\ Cardinality(DOMAIN open_positions) = 3
    /\ signal_in.symbol \in DOMAIN open_positions
    /\ open_positions[signal_in.symbol].side = signal_in.side

HeldSide == open_positions[signal_in.symbol].side
Opposed ==
    /\ signal_in.symbol \in DOMAIN open_positions
    /\ \/ signal_in.side = "BUY" /\ HeldSide = "SELL"
       \/ signal_in.side = "SELL" /\ HeldSide = "BUY"

\* C10: validate_trade rejects a signal whenever a position of the opposite
\* side is held on its symbol, and never gives that reason when the position
\* held has the same side or the symbol has no position.
C10_OppositeDirection ==
    /\ (Validated /\ Opposed) => Rejected
    /\ reason = "opposite_direction" => Opposed

\* a SELL refused against a BUY position while the map has room, in a run
\* where the map also holds a position on another symbol
C10_Witness ==
    /\ Rejected
    /\ reason = "opposite_direction"
    /\ signal_in.side = "SELL"
    /\ Cardinality(DOMAIN open_positions) = 2

\* a same-direction signal on a held symbol that went through
C10_SameDirectionAccepted ==
    /\ Accepted
    /\ signal_in.symbol \in DOMAIN open_positions
    /\ HeldSide = signal_in.side

----------------------------------------------------------------------------
(* Claims about adjust_stops *)

StopOf(trades, id) == trades[id].stop_loss

\* C4: over any sequence of adjust_stops calls and prices, a long position's
\* stop_loss never decreases and a short position's never increases; a stop
\* changes only to a candidate strictly beyond it (price x 0.99 above the
\* stop of a long, price x 1.01 below the stop of a short).
C4_Ratchet ==
    [][\A id \in DOMAIN open_trades :
          "stop_loss" \in DOMAIN open_trades[id] =>
             LET old == StopOf(open_trades, id)
                 new == StopOf(open_trades', id)
             IN  IF open_trades[id].side = "BUY"
                 THEN /\ RLe(old, new)
                      /\ new # old =>
                            /\ new = Rat(current_price'[id] * 99, 100)
                            /\ RLt(old, new)
                 ELSE /\ RLe(new, old)
                      /\ new # old =>
                            /\ new = Rat(current_price'[id] * 101, 100)
                            /\ RLt(new, old)]_vars

\* a long position whose stop was raised to 49995 (price 50500) by one call
\* and kept by a later call at price 50000, whose candidate 49500 is lower
C4_Witness ==
    \E id \in DOMAIN open_trades :
        /\ open_trades[id].side = "BUY"
        /\ "stop_loss" \in DOMAIN open_trades[id]
        /\ open_trades[id].stop_loss = Rat(49995, 1)
        /\ id \in DOMAIN current_price
        /\ current_price[id] = 50000

----------------------------------------------------------------------------
(* Claims about StrategyManager.generate_signals *)

Count(seq, x) == Cardinality({i \in 1..Len(seq) : seq[i] = x})
SameElements(a, b) ==
    /\ Len(a) = Len(b)
    /\ \A x \in Range(a) \cup Range(b) : Count(a, x) = Count(b, x)

\* the positions of the enabled list that have an instance, in list order
RECURSIVE Initialized(_)
Initialized(i) ==
    IF i > Len(enabled_strategies) THEN <<>>
    ELSE (IF enabled_strategies[i] \in strategies THEN <<i>> ELSE <<>>) \o Initialized(i + 1)

\* what the strategies that did not raise returned, in list order
RECURSIVE Contributions(_)
Contributions(i) ==
    IF i > Len(outcomes) THEN <<>>
    ELSE (IF i \in Range(invoked) /\ ~outcomes[i].raised THEN outcomes[i].signals ELSE <<>>)
           \o Contributions(i + 1)

\* C5: whichever enabled strategies raise or have no instance, generate_signals
\* invokes every other enabled strategy, returns, and returns exactly the
\* signals of the strategies that did not fail.
C5_FailureIsolation ==
    generated # "none" =>
        /\ generated = "returned"
        /\ invoked = Initialized(1)
        /\ SameElements(all_signals, Contributions(1))

\* the first enabled strategy raised, the second was still invoked and its
\* signals are the result
C5_Witness ==
    /\ generated = "returned"
    /\ Len(enabled_strategies) = 2
    /\ invoked = <<1, 2>>
    /\ outcomes[1].raised
    /\ ~outcomes[2].raised
    /\ all_signals # <<>>
    /\ all_signals = outcomes[2].signals

\* one enabled identifier has no instance, the other raised: an empty result
C5_AllFailed ==
    /\ generated = "returned"
    /\ Len(enabled_strategies) = 2
    /\ Len(invoked) = 1
    /\ outcomes[invoked[1]].raised
    /\ all_signals = <<>>

----------------------------------------------------------------------------
(* Claims about IchimokuStrategy.generate_signals *)

ShortSeries == Len(data.rows) < senkou_span_b_period + displacement

\* C6: on every series shorter than senkou_span_b_period + displacement, the
\* frame without columns included, generate_signals returns an empty list
\* and does not raise.
C6_ShortSeriesEmpty ==
    (ichimoku # "none" /\ ShortSeries) => (ichimoku = "returned" /\ ichimoku_signals = <<>>)

\* what the code does hold to: a short series that has the candle columns
C6_ShortSeriesWithColumns ==
    (ichimoku # "none" /\ ShortSeries /\ IchimokuColumns \subseteq data.columns)
        => (ichimoku = "returned" /\ ichimoku_signals = <<>>)

\* a series of 77 candles went through generate_signals
C6_Witness ==
    /\ ichimoku = "returned"
    /\ Len(data.rows) = senkou_span_b_period + displacement - 1
    /\ ichimoku_signals = <<>>

\* a series long enough produced a signal
IchimokuBuy == ichimoku = "returned" /\ \E i \in 1..Len(ichimoku_signals) : ichimoku_signals[i].side = "BUY"
IchimokuSell == ichimoku = "returned" /\ \E i \in 1..Len(ichimoku_signals) : ichimoku_signals[i].side = "SELL"

----------------------------------------------------------------------------
(* Claims about DataProcessor.get_latest_data *)

\* the step is a call of get_latest_data for a key
Called == latest_data = "none" /\ latest_data' # "none"
CalledKey == cache_key_of(request'.symbol, request'.timeframe)
OtherKeysKept ==
    /\ DOMAIN data_cache' = DOMAIN data_cache \cup {CalledKey}
    /\ DOMAIN last_update' = DOMAIN last_update \cup {CalledKey}
    /\ \A k \in DOMAIN data_cache \ {CalledKey} : data_cache'[k] = data_cache[k]
    /\ \A k \in DOMAIN last_update \ {CalledKey} : last_update'[k] = last_update[k]

\* C11: for a key refreshed before, a call made less than half the candle
\* period after that refresh returns the cached frame and fetches nothing; a
\* call made at or after half the period fetches and, when the refresh
\* succeeds, replaces the cached frame and the refresh time.
C11_RefreshPolicy ==
    [][(Called /\ CalledKey \in DOMAIN last_update
               /\ request'.timeframe \in DOMAIN TIMEFRAMES) =>
         IF 2 * (request'.current_time - last_update[CalledKey])
               < TIMEFRAMES[request'.timeframe]
         THEN /\ latest_data' = "returned"
              /\ fetch' = <<>>
              /\ latest' = data_cache[CalledKey]
              /\ data_cache' = data_cache
              /\ last_update' = last_update
         ELSE /\ fetch' # <<>>
              /\ (fetch'[1].fetched /\ fetch'[1].computed) =>
                    /\ latest_data' = "returned"
                    /\ data_cache'[CalledKey] = latest'
                    /\ latest'.rows = fetch'[1].klines
                    /\ last_update'[CalledKey] = request'.current_time
                    /\ OtherKeysKept]_vars

\* a call one second after the refresh of a 1m key was served from the cache
C11_Witness ==
    /\ latest_data = "returned"
    /\ request.timeframe = "1m"
    /\ fetch = <<>>
    /\ cache_key_of(request.symbol, request.timeframe) \in DOMAIN last_update
    /\ request.current_time - last_update[cache_key_of(request.symbol, request.timeframe)] = 1
    /\ latest.rows # <<>>

\* a call exactly half a period after the refresh of a 1m key fetched again
C11_RefreshedAtHalf ==
    /\ latest_data = "returned"
    /\ request.timeframe = "1m"
    /\ request.current_time = 30
    /\ fetch # <<>>

\* C12: when the candle fetch or the recomputation after it fails, the call
\* returns the frame the key's last successful refresh cached, or the empty
\* frame when there is none, and both caches stay as they were.
C12_DegradeToCache ==
    [][(Called /\ fetch' # <<>> /\ ~(fetch'[1].fetched /\ fetch'[1].computed)) =>
         /\ latest_data' = "returned"
         /\ latest' = (IF CalledKey \in DOMAIN data_cache
                       THEN data_cache[CalledKey] ELSE EmptyDataFrame)
         /\ data_cache' = data_cache
         /\ last_update' = last_update]_vars

\* a failed refresh was answered with the cached candles
C12_Witness ==
    /\ latest_data = "returned"
    /\ fetch # <<>>
    /\ ~fetch[1].fetched
    /\ cache_key_of(request.symbol, request.timeframe) \in DOMAIN data_cache
    /\ latest = data_cache[cache_key_of(request.symbol, request.timeframe)]
    /\ latest.rows # <<>>

\* a failed first refresh was answered with the empty frame
C12_EmptyWithoutCache ==
    /\ latest_data = "returned"
    /\ fetch # <<>>
    /\ ~fetch[1].computed
    /\ cache_key_of(request.symbol, request.timeframe) \notin DOMAIN data_cache
    /\ latest = EmptyDataFrame

----------------------------------------------------------------------------
(* Claims about DataProcessor.calculate_indicators *)

\* C13: after calculate_indicators the frame it was given has exactly the
\* columns and values it had before the call.
C13_InputUnaltered == enriched # <<>> => frame = frame_before

\* the part the code keeps: a call on a frame that already went through one
\* returns the same columns and leaves that frame as it is
C13_SecondCallSame ==
    [][(enriched # <<>> /\ enriched' # <<>>) =>
          (enriched'[1] = enriched[1] /\ frame' = frame)]_vars

----------------------------------------------------------------------------
(* Claims about StrategyManager.combine_signals *)

SideCount(side) ==
    Cardinality({i \in 1..Len(combine_input) : combine_input[i].side = side})

\* exactly one signal, of the side, taken from the input
OneOf(out, side) ==
    /\ Len(out) = 1
    /\ out[1].side = side
    /\ \E i \in 1..Len(combine_input) : combine_input[i] = out[1]

\* C14: combine_signals returns nothing for an empty input, exactly one input
\* signal of a side when that side's share of the input is strictly above
\* 0.6, and nothing otherwise, a share of exactly 0.6 included.
C14_CombineThreshold ==
    combined # <<>> =>
        LET out == combined[1]
            n == Len(combine_input)
        IN  /\ Len(out) <= 1
            /\ n = 0 => out = <<>>
            /\ 10 * SideCount("BUY") > 6 * n => OneOf(out, "BUY")
            /\ 10 * SideCount("SELL") > 6 * n => OneOf(out, "SELL")
            /\ (10 * SideCount("BUY") <= 6 * n /\ 10 * SideCount("SELL") <= 6 * n)
                  => out = <<>>

\* two BUY and one SELL gave one BUY
C14_Witness ==
    /\ combined # <<>>
    /\ Len(combine_input) = 3
    /\ SideCount("BUY") = 2
    /\ Len(combined[1]) = 1
    /\ combined[1][1].side = "BUY"

\* three BUY out of five, a share of exactly 0.6, gave nothing
C14_ExactlyAtThreshold ==
    /\ combined # <<>>
    /\ Len(combine_input) = 5
    /\ SideCount("BUY") = 3
    /\ combined[1] = <<>>

\* the positions of the input that hold a signal of the side
OfSide(side) == {i \in 1..Len(combine_input) : combine_input[i].side = side}
Scored(side) == {i \in OfSide(side) : "confidence" \in DOMAIN combine_input[i]}

\* the side's highest-confidence signal, the earliest on a tie; the side's
\* first signal when none of them has a confidence
Consolidated(side) ==
    IF Scored(side) = {}
    THEN combine_input[CHOOSE i \in OfSide(side) : \A j \in OfSide(side) : i <= j]
    ELSE combine_input[CHOOSE i \in Scored(side) :
            \A j \in Scored(side) :
               \/ combine_input[j].confidence < combine_input[i].confidence
               \/ (combine_input[j].confidence = combine_input[i].confidence /\ i <= j)]

\* C20: the signal combine_signals emits for a side is that side's
\* highest-confidence input signal, the earliest on a tie, and the side's
\* first signal only when none of the side's signals has a confidence.
C20_HighestConfidence ==
    (combined # <<>> /\ combined[1] # <<>>) =>
        combined[1][1] = Consolidated(combined[1][1].side)

\* what the code keeps to: the rule holds whenever the side's first signal
\* has a confidence, or none of the side's signals has one
C20_WhenFirstIsScored ==
    (combined # <<>> /\ combined[1] # <<>>) =>
        LET side == combined[1][1].side
            first == CHOOSE i \in OfSide(side) : \A j \in OfSide(side) : i <= j
        IN  (first \in Scored(side) \/ Scored(side) = {}) =>
                combined[1][1] = Consolidated(side)

----------------------------------------------------------------------------
(* Claims about the order of StrategyManager.generate_signals' result *)

AllScored(list) == \A i \in 1..Len(list) : "confidence" \in DOMAIN list[i]
Descending(list) ==
    \A i \in 1..Len(list), j \in 1..Len(list) :
        i < j => list[i].confidence >= list[j].confidence

\* C15: the result is sorted by descending confidence if every produced
\* signal has a confidence; if one of them has none, the result is in
\* generation order.
C15_SortedIffAllScored ==
    generated = "returned" =>
        IF AllScored(Contributions(1))
        THEN Descending(all_signals) /\ SameElements(all_signals, Contributions(1))
        ELSE all_signals = Contributions(1)

\* what the code keeps to: the list is sorted when its first signal has a
\* confidence (signals without one counting as 0) and left alone otherwise
C15_SortedIffFirstScored ==
    generated = "returned" =>
        LET produced == Contributions(1)
        IN  IF produced # <<>> /\ "confidence" \in DOMAIN produced[1]
            THEN /\ SameElements(all_signals, produced)
                 /\ \A i \in 1..Len(all_signals), j \in 1..Len(all_signals) :
                       i < j => confidence_key(all_signals[i]) >= confidence_key(all_signals[j])
            ELSE all_signals = produced

----------------------------------------------------------------------------
(* Claims about position sizing *)

\* account value x RISK_PER_TRADE / price
RiskShare(account_value) ==
    RDiv(RMul(FromInt(account_value), RISK_PER_TRADE), FromInt(sizing_input.price))

\* C16: the size a strategy's calculate_position_size returns after rounding
\* to 6 decimals, and the size calculate_max_position_size returns, are at
\* most MAX_POSITION_SIZE and at most account value x RISK_PER_TRADE / price.
C16_SizeLimits ==
    sizes # <<>> =>
        /\ RLe(sizes[1].strategy, MAX_POSITION_SIZE)
        /\ RLe(sizes[1].strategy, RiskShare(base_get_account_balance(SizingBalances)))
        /\ RLe(sizes[1].risk_manager, MAX_POSITION_SIZE)
        /\ RLe(sizes[1].risk_manager, RiskShare(get_account_value(SizingBalances)))

\* a size of at most 6 decimals, and the risk share rounded down, in millionths
Millionths(x) == x.n * (1000000 \div x.d)
MillionthsBelow(x) == (x.n * 1000000) \div x.d

\* what the code keeps to: the Risk Manager's size is within both limits, the
\* strategy's within the cap and less than 0.000001 above the risk share
C16_SizeLimitsUpToRounding ==
    sizes # <<>> =>
        /\ RLe(sizes[1].strategy, MAX_POSITION_SIZE)
        /\ Millionths(sizes[1].strategy)
              <= MillionthsBelow(RiskShare(base_get_account_balance(SizingBalances))) + 1
        /\ RLe(sizes[1].risk_manager, MAX_POSITION_SIZE)
        /\ RLe(sizes[1].risk_manager, RiskShare(get_account_value(SizingBalances)))

\* the price at which rounding lifts the size above the risk share
C16_RoundedUp ==
    /\ sizes # <<>>
    /\ sizing_input = [account |-> 10000, price |-> 60000]
    /\ sizes[1].strategy = Rat(1667, 1000000)
    /\ sizes[1].risk_manager = Rat(1, 600)

----------------------------------------------------------------------------
(* Claims about the strategy registry *)

\* C17: after set_enabled_strategies(ids) the registry holds no entry for an
\* identifier that is not in ids.
C17_RegistryFromIds == strategies \subseteq Range(enabled_strategies)

\* what the code keeps to: the registry only grows
C17_RegistryGrows == [][strategies \subseteq strategies']_vars

----------------------------------------------------------------------------
(* Claims about trailing stops in the decision loop *)

\* C18: with trailing stops enabled, an iteration of the decision loop has
\* run adjust_stops exactly once when it ends.
C18_AdjustOncePerIteration ==
    (main = "sleep" /\ USE_TRAILING_STOP) => adjust_calls = 1

\* what the code keeps to: with trailing stops disabled adjust_stops leaves
\* every trade as it is
C18_DisabledLeavesStops ==
    [][~USE_TRAILING_STOP => open_trades' = open_trades]_vars

\* the decision loop never calls adjust_stops
C18_NeverCalled == adjust_calls = 0

----------------------------------------------------------------------------
(* Claims about the levels validate_trade writes into an accepted signal *)

\* price x (1 -/+ pct): below the price for the first side, above for the other
LevelAt(pct, below_side) ==
    IF signal_in.side = below_side
    THEN Rat(signal_in.price * (100 - pct), 100)
    ELSE Rat(signal_in.price * (100 + pct), 100)

\* C19: in an accepted signal a stop_loss or take_profit the strategy set is
\* kept; an absent stop_loss is set to price x (1 - 0.02) for BUY and
\* price x (1 + 0.02) for SELL only when USE_STOP_LOSS is on, and an absent
\* take_profit is always set to price x (1 + 0.04) for BUY and
\* price x (1 - 0.04) for SELL.
C19_Backfill ==
    Accepted =>
        /\ IF "stop_loss" \in DOMAIN signal_in
           THEN "stop_loss" \in DOMAIN signal /\ signal.stop_loss = signal_in.stop_loss
           ELSE IF USE_STOP_LOSS
                THEN "stop_loss" \in DOMAIN signal /\ signal.stop_loss = LevelAt(2, "BUY")
                ELSE "stop_loss" \notin DOMAIN signal
        /\ IF "take_profit" \in DOMAIN signal_in
           THEN signal.take_profit = signal_in.take_profit
           ELSE "take_profit" \in DOMAIN signal /\ signal.take_profit = LevelAt(4, "SELL")

\* an accepted SELL kept its stop loss and got its take profit at 0.96 x price
C19_Witness ==
    /\ Accepted
    /\ USE_STOP_LOSS
    /\ signal_in.side = "SELL"
    /\ "stop_loss" \in DOMAIN signal_in
    /\ "take_profit" \notin DOMAIN signal_in
    /\ signal.stop_loss = signal_in.stop_loss
    /\ signal.take_profit = Rat(signal_in.price * 96, 100)

\* with USE_STOP_LOSS off an accepted signal without a stop loss got none
C19_NoStopLossWhenDisabled ==
    /\ Accepted
    /\ ~USE_STOP_LOSS
    /\ "stop_loss" \notin DOMAIN signal_in
    /\ "stop_loss" \notin DOMAIN signal
    /\ "take_profit" \in DOMAIN signal

----------------------------------------------------------------------------
(* Claims about the execution of accepted signals *)

\* the entry orders among the orders placed for the current signal
EntryOrders == {i \in 1..Len(placed) : placed[i].type \notin {"STOP_LOSS_LIMIT", "LIMIT"}}

\* C21: for a signal validate_trade accepted, the loop calls execute_trade
\* exactly once, after the validation, and at most one entry order is
\* submitted, also when the submission fails; for a rejected signal
\* execute_trade is not called and no order is placed.
C21_ExecutedOnce ==
    Validated =>
        IF Accepted
        THEN /\ calls = <<"validate_trade", "execute_trade">>
             /\ Cardinality(EntryOrders) <= 1
             /\ \A i \in EntryOrders :
                   i = 1 /\ placed[i].side = signal.side /\ placed[i].quantity = signal.quantity
        ELSE /\ calls = <<"validate_trade">>
             /\ placed = <<>>

\* an accepted signal whose submission failed: one call, no order, no retry
C21_Witness ==
    /\ Accepted
    /\ calls = <<"validate_trade", "execute_trade">>
    /\ placed = <<>>

\* an accepted signal with its entry order and both follow-up orders placed
C21_AllPlaced ==
    /\ Accepted
    /\ calls = <<"validate_trade", "execute_trade">>
    /\ Len(placed) = 3

----------------------------------------------------------------------------
(* Claims about the signal of a rejected trade *)

\* C22: a signal validate_trade rejects is left as it was passed in.
C22_RejectedUntouched == Rejected => signal = signal_in

\* what the code keeps to: the two rejections before the sizing leave the
\* signal alone, and a later rejection changes at most its quantity,
\* stop_loss and take_profit
C22_EarlyRejectionsUntouched ==
    Rejected =>
        /\ reason \in {"max_open_trades", "opposite_direction"} => signal = signal_in
        /\ \A k \in DOMAIN signal_in \ {"quantity", "stop_loss", "take_profit"} :
              k \in DOMAIN signal /\ signal[k] = signal_in[k]

\* a signal rejected for exposure with its quantity cut and its levels filled in
C22_RejectedButChanged ==
    /\ Rejected
    /\ reason = "exposure"
    /\ signal.quantity # signal_in.quantity
    /\ "stop_loss" \notin DOMAIN signal_in
    /\ "stop_loss" \in DOMAIN signal

----------------------------------------------------------------------------
(* Claims about the account state *)

\* C23: after every update_account_state the total_exposure is the one
\* computed from the balances held: the two are updated together.
C23_ExposureOfBalances ==
    "balances" \in attrs =>
        /\ "total_exposure" \in attrs
        /\ total_exposure = calculate_exposure(balances)

\* what the code keeps to: an update whose two fetches both answered leaves
\* the exposure of the balances it stored
C23_TogetherWhenBothFetched ==
    "open_orders" \in fetched =>
        /\ {"balances", "total_exposure"} \subseteq attrs
        /\ total_exposure = calculate_exposure(balances)

\* and an update whose balance fetch failed changes neither of them
C23_NeitherWhenBalancesFail ==
    [][(main = "for" /\ fetched' = {}) =>
          /\ balances' = balances
          /\ total_exposure' = total_exposure]_vars

\* balances stored by an update whose open-orders fetch failed, with the
\* exposure of earlier balances still held
C23_StaleExposure ==
    /\ fetched = {"balances"}
    /\ "total_exposure" \in attrs
    /\ total_exposure # calculate_exposure(balances)

\* balances stored by the constructor and no total_exposure assigned at all
C23_ExposureUnassigned ==
    /\ "balances" \in attrs
    /\ "total_exposure" \notin attrs

----------------------------------------------------------------------------
(* Claims about the caches after a refresh *)

\* the call just made asked the exchange and the refresh did not complete
RefreshFailed == fetch # <<>> /\ ~(fetch[1].fetched /\ fetch[1].computed)
RefreshSucceeded == fetch # <<>> /\ fetch[1].fetched /\ fetch[1].computed
RequestKey == cache_key_of(request.symbol, request.timeframe)

\* a call for the request's key at instant t asks the exchange, whatever it answers
FetchesAgainAt(t) ==
    \A refresh \in Refreshes :
        LET got == get_latest_data(data_cache, last_update, request.symbol,
                                   request.timeframe, t, refresh)
        IN  got.outcome = "returned" /\ got.fetch = <<refresh>>

\* C24: a get_latest_data call whose fetch fails leaves the cache entry and
\* the refresh time of its key as they were, so a call for the key at any
\* later instant, however soon, fetches again; a successful refresh sets
\* both the cached frame and the refresh time, and no key has a refresh time
\* without a cached frame.
C24_FailedFetchKeepsCaches ==
    [][(latest_data = "none" /\ latest_data' # "none") =>
          /\ RefreshFailed' =>
                /\ data_cache' = data_cache
                /\ last_update' = last_update
                /\ \A t \in Instants : t >= request'.current_time => FetchesAgainAt(t)'
          /\ RefreshSucceeded' =>
                /\ RequestKey' \in DOMAIN data_cache' \cap DOMAIN last_update'
                /\ data_cache'[RequestKey'] = latest'
                /\ last_update'[RequestKey'] = request'.current_time
          /\ DOMAIN last_update' \subseteq DOMAIN data_cache']_vars

\* a refresh that failed for a key refreshed before, with a later instant
\* one second away
C24_Witness ==
    /\ latest_data = "returned"
    /\ RefreshFailed
    /\ RequestKey \in DOMAIN last_update
    /\ request.current_time = 150

\* a first refresh that failed: the key has neither a frame nor a time
C24_FailedFirstRefresh ==
    /\ latest_data = "returned"
    /\ RefreshFailed
    /\ RequestKey \notin DOMAIN last_update \cup DOMAIN data_cache
    /\ request.current_time = 0

----------------------------------------------------------------------------
(* Claims about the Ichimoku conditions *)

\* the values of the last candle, read off the series the strategy was given
LastRow == Len(data.rows)
TenkanNow == tenkan_sen(data.rows, LastRow)
KijunNow == kijun_sen(data.rows, LastRow)
TenkanPrev == tenkan_sen(data.rows, LastRow - 1)
KijunPrev == kijun_sen(data.rows, LastRow - 1)
SpanA == senkou_span_a(data.rows, LastRow)
SpanB == senkou_span_b(data.rows, LastRow)
CloseNow == FromInt(data.rows[LastRow].close)
ChikouValue == chikou_span(data.rows, LastRow - displacement)
ChikouReference == FromInt(data.rows[LastRow - 2 * displacement].close)

ValuesDefined ==
    /\ LastRow >= senkou_span_b_period + displacement
    /\ \A x \in {TenkanNow, KijunNow, TenkanPrev, KijunPrev, SpanA, SpanB, ChikouValue} :
          ~IsNaN(x)

CrossedAbove == RLe(TenkanPrev, KijunPrev) /\ RLt(KijunNow, TenkanNow)
CrossedBelow == RLe(KijunPrev, TenkanPrev) /\ RLt(TenkanNow, KijunNow)
CloseAboveCloud == RLt(SpanA, CloseNow) /\ RLt(SpanB, CloseNow)
CloseBelowCloud == RLt(CloseNow, SpanA) /\ RLt(CloseNow, SpanB)

BullishConditions ==
    /\ ValuesDefined
    /\ CrossedAbove
    /\ CloseAboveCloud
    /\ RLt(SpanB, SpanA)
    /\ RLt(ChikouReference, ChikouValue)

BearishConditions ==
    /\ ValuesDefined
    /\ CrossedBelow
    /\ CloseBelowCloud
    /\ RLt(SpanA, SpanB)
    /\ RLt(ChikouValue, ChikouReference)

\* the bearish conditions with a cloud that is merely not bullish
NotBullishConditions ==
    /\ ValuesDefined
    /\ CrossedBelow
    /\ CloseBelowCloud
    /\ RLe(SpanA, SpanB)
    /\ RLt(ChikouValue, ChikouReference)

\* C25: generate_signals returns at most one signal, a BUY only when the
\* four bullish conditions hold together, a SELL only when the four mirrored
\* conditions (Span A < Span B among them) hold together, and nothing when
\* a value involved is undefined.
C25_SignalConditions ==
    ichimoku = "returned" =>
        /\ Len(ichimoku_signals) <= 1
        /\ \A i \in 1..Len(ichimoku_signals) :
              /\ ichimoku_signals[i].side = "BUY" => BullishConditions
              /\ ichimoku_signals[i].side = "SELL" => BearishConditions

\* what the code keeps to: at most one signal, a BUY exactly under the
\* bullish conditions, a SELL exactly under the bearish crossing, close and
\* Chikou conditions with Span A <= Span B
C25_SignalIffConditions ==
    ichimoku = "returned" /\ {"high", "low", "close"} \subseteq data.columns
                          /\ LastRow >= senkou_span_b_period + displacement =>
        /\ Len(ichimoku_signals) <= 1
        /\ IchimokuBuy <=> BullishConditions
        /\ IchimokuSell <=> NotBullishConditions
        /\ ~ValuesDefined => ichimoku_signals = <<>>

\* a SELL over a flat cloud: Span A = Span B
C25_SellOverFlatCloud ==
    /\ IchimokuSell
    /\ SpanA = SpanB

\* a BUY and a SELL under the stated conditions
C25_BuyUnderConditions == IchimokuBuy /\ BullishConditions
C25_SellUnderConditions == IchimokuSell /\ BearishConditions

====
